---- MODULE Spec2Model ----
(***************************************************************************)
(* Model of the user-account controllers of Backend-Learner                *)
(* (src/src/controllers/user.controller.js and the earlier copy of the     *)
(* controller in src/unnamed/part_000).                                    *)
(*                                                                         *)
(* Every request handler is an async function: it runs without             *)
(* interruption between two awaits, and other requests run while it waits. *)
(* Each handler is therefore one process whose steps are its await points; *)
(* work that the code starts without awaiting it (the token rotation of    *)
(* refreshAccessToken, the save of changePassword) goes on after the       *)
(* response has been sent.                                                 *)
(***************************************************************************)
EXTENDS Integers, Sequences, FiniteSets, TLC

VARIABLES
    users,      \* the users collection: a sequence of documents, _id = index
    reqs,       \* the request slots: the handler running in each, its locals
    last,       \* the last exchange completed: the request, its response, its log
    started,    \* number of requests received so far
    issued,     \* log: refresh tokens in the order generateRefreshToken made them
    saved,      \* log: refresh tokens in the order user.save() stored them
    delivered,  \* log: refresh tokens sent to a caller in a response
    consumed,   \* log: refresh tokens for which a refresh has answered 200
    cpStarted,  \* log: per user, number of changePassword requests received
    lastChange, \* log: per user, the last changePassword answered 200
    subscriptions \* the subscriptions collection: edges (channel, subscriber)

vars == <<users, reqs, last, started, issued, saved, delivered, consumed, cpStarted, lastChange,
          subscriptions>>

---------------------------------------------------------------------------
(* Bounds *)

MaxReqs == 2     \* requests in flight at once
MaxOps == 2      \* session requests received in one behaviour
MaxUsers == 1    \* accounts in the store when a behaviour starts
MaxRegs == 1     \* registrations received in one behaviour
MaxAnomalies == 1 \* parts of one registration that are missing, blank or without a file
MaxEdges == 2    \* documents in the subscriptions collection

Slots == 1..MaxReqs

---------------------------------------------------------------------------
(* JavaScript values.  A string is a record holding its characters, so     *)
(* that trim() and toLowerCase() are computed character by character;      *)
(* undefined is a value of its own.                                        *)

Undefined == [undefined |-> TRUE]
Str(s) == [str |-> s]
IsStr(v) == DOMAIN v = {"str"}

\* !v for a string or undefined
Falsy(v) == v = Undefined \/ v = Str(<<>>)

RECURSIVE TrimStart(_)
TrimStart(s) == IF s # <<>> /\ Head(s) = " " THEN TrimStart(Tail(s)) ELSE s

RECURSIVE TrimEnd(_)
TrimEnd(s) ==
    IF s # <<>> /\ s[Len(s)] = " " THEN TrimEnd(SubSeq(s, 1, Len(s) - 1)) ELSE s

\* String.prototype.trim
Trim(s) == TrimEnd(TrimStart(s))

LowerChar(c) == IF c = "A" THEN "a" ELSE IF c = "X" THEN "x" ELSE c

\* String.prototype.toLowerCase
ToLowerCase(s) == [i \in 1..Len(s) |-> LowerChar(s[i])]

\* field?.trim() === ""
BlankField(v) == IsStr(v) /\ Trim(v.str) = <<>>

---------------------------------------------------------------------------
(* The request inputs *)

FullNames == {Undefined, Str(<<" ">>), Str(<<"n">>)}
UserNames == {Undefined, Str(<<>>), Str(<<"a">>), Str(<<"A">>), Str(<<"b">>)}
Emails == {Undefined, Str(<<" ">>), Str(<<"x">>), Str(<<"X">>), Str(<<"y">>)}
Passwords == {Undefined, Str(<<"p">>), Str(<<"q">>)}
NewPasswords == {Undefined, Str(<<>>), Str(<<"p">>)}

\* req.files as multer leaves it: undefined without a multipart body, else
\* an object with an array for each field that carried a file
NoFiles == {}
FileSets == {[present |-> FALSE, fields |-> NoFiles]}
            \cup {[present |-> TRUE, fields |-> f] : f \in SUBSET {"avatar", "coverImage"}}

---------------------------------------------------------------------------
(* The Credential Store (the users collection) and what the User model     *)
(* adds to a document: the password hash and the two token generators.     *)

UserIds == 1..(MaxUsers + MaxRegs)

\* the _id of the id-th document of the collection
ObjectId(id) == [oid |-> id]

\* bcrypt in the model's pre-save hook: the stored form of a password
Hash(p) == [hash |-> p.str]

\* user.isPasswordCorrect(password)
isPasswordCorrect(doc, password) == IsStr(password) /\ doc.password = Hash(password)

\* user.generateRefreshToken(): carries the user id; k tells two issues apart
generateRefreshToken(_id, k) == [typ |-> "refresh", sub |-> _id, n |-> k]

\* user.generateAccessToken()
generateAccessToken(_id, k) == [typ |-> "access", sub |-> _id, n |-> k]

\* a token signed with another secret, or malformed
ForgedToken == [typ |-> "forged", sub |-> ObjectId(1), n |-> 0]

\* a validly signed refresh token whose subject is no document of the store
OrphanToken == [typ |-> "refresh", sub |-> ObjectId(MaxUsers + MaxRegs + 1), n |-> 0]

\* mutant: the expiry of the token is not looked at
jwtVerify_IgnoresExpiry(token, expired) == token.typ = "refresh"

\* jwt.verify(token, REFRESH_TOKEN_SECRET) returns the claims (TRUE) or throws
jwtVerify(token, expired) == token.typ = "refresh" /\ ~expired

\* User.findById(_id): the document, or null
findById(_id) == IF _id.oid \in 1..Len(users) THEN users[_id.oid] ELSE Undefined

Min(S) == CHOOSE m \in S : \A o \in S : m <= o

\* User.findOne(filter), given the ids of the documents the filter matches:
\* the first matching document, or null
findOne(matching) == IF matching = {} THEN Undefined ELSE users[Min(matching)]

\* a filter { key: value } on one document: the document's value under that
\* very key is compared; a document without the key matches an undefined
\* (null) value only.  User.create() writes the username under the key
\* userName (line 131), so no document has a key username.
Matches(doc, key, value) ==
    IF key \in DOMAIN doc THEN doc[key] = value ELSE value = Undefined

\* the filter { email }
ByEmail(email) == {id \in 1..Len(users) : users[id].email = email}

\* the filter { $or: [{ username }, { email }] }
ByUsernameOrEmail(username, email) ==
    {id \in 1..Len(users) : \/ Matches(users[id], "username", username)
                             \/ Matches(users[id], "email", email)}

\* .select("-password -refreshToken")
Select(doc) == [f \in DOMAIN doc \ {"password", "refreshToken"} |-> doc[f]]

\* res.json(): a field whose value is undefined is left out of the body
Json(obj) == [f \in {g \in DOMAIN obj : obj[g] # Undefined} |-> obj[f]]

\* the document User.create() stores for a registration
NewUser(id, fullName, userName, email, password, avatar, coverImage) ==
    [_id |-> ObjectId(id), fullName |-> fullName, userName |-> userName, email |-> email,
     password |-> Hash(password), avatar |-> avatar, coverImage |-> coverImage,
     refreshToken |-> Undefined, watchHistory |-> <<>>]

\* mutant: the collection has no unique index
DuplicateKey_NoIndex(userName, email) == FALSE

\* the unique indexes on username and email
DuplicateKey(userName, email) ==
    \E id \in 1..Len(users) : users[id].userName = userName \/ users[id].email = email

---------------------------------------------------------------------------
(* Requests and responses *)

NoResp == [none |-> TRUE]

\* a thrown ApiError(code, ...) reaches the caller as the error envelope
ApiError(code) == [status |-> code, error |-> TRUE]

\* any other exception (a TypeError) reaches the caller as a server fault
ServerFault == ApiError(500)

\* res.status(code).cookie(...).json(new ApiResponse(..., data, ...))
ApiResponse(code, data, cookies) == [status |-> code, data |-> data, cookies |-> cookies]

Idle == [op |-> "idle", pc |-> "idle", body |-> Undefined, loc |-> Undefined,
         log |-> Undefined]

\* the record of a completed exchange
Exchange(r, resp) == [op |-> r.op, body |-> r.body, resp |-> resp, log |-> r.log]

Free(i) == reqs[i].pc = "idle"

\* a request is received in the lowest free slot
Receive(i, max) ==
    /\ started < max
    /\ Free(i)
    /\ \A j \in Slots : j < i => ~Free(j)
    /\ started' = started + 1

Running(i, op, pc) == reqs[i].op = op /\ reqs[i].pc = pc

\* the handler of slot i goes on as r, having answered nothing yet
Continue(i, r) == reqs' = [reqs EXCEPT ![i] = r] /\ UNCHANGED last

\* the handler of slot i, now r, ends with resp (NoResp: without answering)
Finish(i, r, resp) == reqs' = [reqs EXCEPT ![i] = Idle] /\ last' = Exchange(r, resp)

\* the unawaited work left in slot i ends; its result goes to nobody
Drop(i) == reqs' = [reqs EXCEPT ![i] = Idle] /\ UNCHANGED last

\* the handler of slot i answers resp and its unawaited work goes on as r
Respond(i, r, resp) == reqs' = [reqs EXCEPT ![i] = r] /\ last' = Exchange(r, resp)

\* the authenticated caller verifyJWT put in req.user
Callers == {ObjectId(id) : id \in 1..Len(users)}

---------------------------------------------------------------------------
(* Initial state: no request in flight; the store holds the accounts of    *)
(* earlier registrations, the first of them logged in: it holds the        *)
(* refresh token its login issued, saved and delivered.                    *)

Repeat(c, k) == [j \in 1..k |-> c]

\* the account an earlier registration left as the id-th document
Registered(id) ==
    NewUser(id, Str(<<"n">>), Str(Repeat("a", id)), Str(Repeat("x", id)),
            Str(IF id % 2 = 1 THEN <<"p">> ELSE <<"q">>), Str(<<"u">>), Str(<<>>))

\* the refresh tokens of the logins before the behaviour starts
EarlierLogins(j) == [id \in 1..j |-> generateRefreshToken(ObjectId(id), id)]

\* k accounts, the first j of them logged in
Accounts(k, j) ==
    [id \in 1..k |-> IF id <= j
                     THEN [Registered(id) EXCEPT !.refreshToken = EarlierLogins(j)[id]]
                     ELSE Registered(id)]

\* no request in flight, nothing logged but the earlier logins
Quiet(j) ==
    /\ issued = EarlierLogins(j)
    /\ saved = EarlierLogins(j)
    /\ delivered = {EarlierLogins(j)[id] : id \in 1..j}
    /\ reqs = [i \in Slots |-> Idle]
    /\ last = Exchange(Idle, NoResp)
    /\ started = 0
    /\ consumed = {}
    /\ cpStarted = [u \in UserIds |-> 0]
    /\ lastChange = [u \in UserIds |-> Undefined]

Init ==
    /\ \E k \in 0..MaxUsers :
          LET j == Min({k, 1})
          IN  users = Accounts(k, j) /\ Quiet(j)
    /\ subscriptions = {}

---------------------------------------------------------------------------
(* logoutUser (user.controller.js 179-195, part_000 111-131).              *)
(* User.findByIdAndUpdate(...) builds a Mongoose query; the handler neither *)
(* awaits it nor calls exec()/then() on it, so the query is never sent to  *)
(* the store.  The handler clears the two cookies and answers 200.         *)

ClearedCookies == [accessToken |-> Undefined, refreshToken |-> Undefined]

logoutUser(i) ==
    /\ Receive(i, MaxOps)
    /\ \E caller \in Callers :
          Finish(i, [op |-> "logoutUser", pc |-> "done", body |-> [user |-> caller],
                     loc |-> Undefined,
                     log |-> [storedAtResp |-> findById(caller).refreshToken]],
                 ApiResponse(200, <<>>, ClearedCookies))
    /\ UNCHANGED <<users, issued, saved, consumed, cpStarted, lastChange, delivered, subscriptions>>

---------------------------------------------------------------------------
(* registerUser (user.controller.js 94-149, part_000 22-77)                *)

Missing(v) == v = Undefined \/ BlankField(v)

AllFiles == [present |-> TRUE, fields |-> {"avatar", "coverImage"}]

\* how many parts of a registration are missing, blank or without a file
Anomalies(body) ==
    Cardinality({f \in {"fullname", "username", "email", "password"} : Missing(body[f])})
    + (IF body.files = AllFiles THEN 0 ELSE 1)

RegisterBodies ==
    {body \in [fullname : FullNames, username : UserNames, email : Emails,
               password : NewPasswords, files : FileSets] : Anomalies(body) <= MaxAnomalies}

\* [fullname, username, email, password].some((field) => field?.trim() === "")
SomeFieldBlank(body) ==
    \E f \in {"fullname", "username", "email", "password"} : BlankField(body[f])

\* log: a stored user has this very username or this very email
Present(username, email) ==
    \E id \in 1..Len(users) : users[id].userName = username \/ users[id].email = email

\* complete registrations: every field and both files, names and emails in
\* either case
CompleteBodies ==
    [fullname : {Str(<<"n">>)}, username : {Str(<<"A">>), Str(<<"b">>)},
     email : {Str(<<"X">>), Str(<<"y">>)}, password : {Str(<<"p">>)}, files : {AllFiles}]

\* lines 97-105: read the body, validate, send the existence query
RegisterReceived(i, bodies, max) ==
    /\ Receive(i, max)
    /\ \E body \in bodies :
          LET r == [op |-> "registerUser", pc |-> "findOne", body |-> body,
                    loc |-> Undefined,
                    log |-> [uploads |-> 0, created |-> FALSE,
                             present |-> Present(body.username, body.email),
                             avatarFailed |-> FALSE, coverFailed |-> FALSE]]
          IN  IF SomeFieldBlank(body)
              THEN Finish(i, r, ApiError(400))
              ELSE Continue(i, r)
    /\ UNCHANGED <<users, issued, saved, consumed, cpStarted, lastChange, delivered, subscriptions>>

\* a registration of any shape, MaxRegs of them
registerUser(i) == RegisterReceived(i, RegisterBodies, MaxRegs)

\* a complete registration, among the MaxOps requests of a behaviour
registerUser_complete(i) == RegisterReceived(i, CompleteBodies, MaxOps)

\* User.findOne({ $or: [{ username }, { email }] })
ExistingUser(body) == findOne(ByUsernameOrEmail(body.username, body.email))

\* req.files?.<field>[0]?.path: undefined without req.files, a TypeError when
\* req.files has no such field, else the path of the file
PathThrows(files, field) == files.present /\ field \notin files.fields
LocalPath(files, field) == IF files.present THEN Str(<<"f">>) ELSE Undefined

\* lines 105-118: the existence check, then the two file paths
registerUser_findOne(i) ==
    /\ Running(i, "registerUser", "findOne")
    /\ LET body == reqs[i].body
           seen == reqs[i]
       IN  IF ExistingUser(body) # Undefined
           THEN Finish(i, seen, ApiError(409))
           ELSE IF PathThrows(body.files, "avatar") \/ PathThrows(body.files, "coverImage")
           THEN Finish(i, seen, ServerFault)
           ELSE IF Falsy(LocalPath(body.files, "avatar"))
           THEN Finish(i, seen, ApiError(400))
           ELSE Continue(i, [seen EXCEPT !.pc = "uploadAvatar",
                               !.loc = [avatar |-> Undefined, coverImage |-> Undefined]])
    /\ UNCHANGED <<users, started, issued, saved, consumed, cpStarted, lastChange, delivered, subscriptions>>

\* uploadAssetsOnCloudinary(localPath): the upload result, or null on failure
UploadResults == {Undefined, [url |-> Str(<<"u">>)]}

\* line 122
registerUser_uploadAvatar(i) ==
    /\ Running(i, "registerUser", "uploadAvatar")
    /\ \E avatar \in UploadResults :
          Continue(i, [reqs[i] EXCEPT !.pc = "uploadCover", !.loc.avatar = avatar,
                                      !.log.uploads = @ + 1,
                                      !.log.avatarFailed = (avatar = Undefined)])
    /\ UNCHANGED <<users, started, issued, saved, consumed, cpStarted, lastChange, delivered, subscriptions>>

\* lines 123-126
registerUser_uploadCover(i) ==
    /\ Running(i, "registerUser", "uploadCover")
    /\ \E coverImage \in UploadResults :
          LET up == [reqs[i] EXCEPT !.loc.coverImage = coverImage, !.log.uploads = @ + 1,
                                    !.log.coverFailed = (coverImage = Undefined)]
          IN  IF reqs[i].loc.avatar = Undefined
              THEN Finish(i, up, ApiError(400))
              ELSE Continue(i, [up EXCEPT !.pc = "create"])
    /\ UNCHANGED <<users, started, issued, saved, consumed, cpStarted, lastChange, delivered, subscriptions>>

\* coverImage?.url || ""
UrlOrEmpty(result) == IF result = Undefined THEN Str(<<>>) ELSE result.url

\* lines 129-136: User.create({...}).  username.toLowerCase() and
\* email.toLowerCase() throw on undefined; the store rejects a document whose
\* password cannot be hashed, one that breaks a unique index, and may reject
\* one without a full name.
registerUser_create(i) ==
    /\ Running(i, "registerUser", "create")
    /\ LET body == reqs[i].body
           loc == reqs[i].loc
           id == Len(users) + 1
       IN  IF body.username = Undefined \/ body.email = Undefined
           THEN Finish(i, reqs[i], ServerFault) /\ UNCHANGED users
           ELSE LET userName == Str(ToLowerCase(body.username.str))
                    email == Str(ToLowerCase(body.email.str))
                IN  \E accepted \in BOOLEAN :
                       IF \/ body.password = Undefined
                          \/ DuplicateKey(userName, email)
                          \/ (body.fullname = Undefined /\ ~accepted)
                       THEN Finish(i, reqs[i], ServerFault) /\ UNCHANGED users
                       ELSE /\ users' = Append(users,
                                   NewUser(id, body.fullname, userName, email, body.password,
                                           loc.avatar.url, UrlOrEmpty(loc.coverImage)))
                            /\ Continue(i, [reqs[i] EXCEPT !.pc = "findById",
                                              !.loc = [_id |-> ObjectId(id)], !.log.created = TRUE])
    /\ UNCHANGED <<started, issued, saved, consumed, cpStarted, lastChange, delivered, subscriptions>>

\* lines 139-148: User.findById(user._id).select("-password -refreshToken")
registerUser_findById(i) ==
    /\ Running(i, "registerUser", "findById")
    /\ LET createdUser == findById(reqs[i].loc._id)
       IN  IF createdUser = Undefined
           THEN Finish(i, reqs[i], ApiError(500))
           ELSE Finish(i, reqs[i], ApiResponse(201, Json(Select(createdUser)), Undefined))
    /\ UNCHANGED <<users, started, issued, saved, consumed, cpStarted, lastChange, delivered, subscriptions>>

---------------------------------------------------------------------------

---------------------------------------------------------------------------
(* generateAccessAndRefreshTokens (user.controller.js 80-92)               *)

TokenCallers == {"loginUser", "loginUser_part000", "refreshAccessToken"}

\* lines 82-86: findById answers; both tokens are generated, the refresh
\* token is set on the document and save() is sent
generateAccessAndRefreshTokens(i) ==
    /\ reqs[i].op \in TokenCallers /\ reqs[i].pc = "generateTokens"
    /\ LET userId == reqs[i].loc.userId
           k == Len(issued) + 1
       IN  /\ findById(userId) # Undefined
           /\ issued' = Append(issued, generateRefreshToken(userId, k))
           /\ Continue(i, [reqs[i] EXCEPT !.pc = "saveTokens",
                             !.loc = [userId |-> userId, user |-> reqs[i].loc.user,
                                      accessToken |-> generateAccessToken(userId, k),
                                      refreshToken |-> generateRefreshToken(userId, k)]])
    /\ UNCHANGED <<users, started, saved, consumed, cpStarted, lastChange, delivered, subscriptions>>

\* log: the refresh token last saved for a user, if any
SavedFor(log, _id) == {k \in 1..Len(log) : log[k].sub = _id}
LastSaved(log, _id) ==
    IF SavedFor(log, _id) = {} THEN Undefined
    ELSE log[CHOOSE k \in SavedFor(log, _id) : \A j \in SavedFor(log, _id) : j <= k]

\* mutant: the save keeps the token the document already had
SaveRefreshToken_KeepsFirst(_id, token) ==
    IF users[_id.oid].refreshToken = Undefined
    THEN [users EXCEPT ![_id.oid].refreshToken = token]
    ELSE users

\* the store after user.save() with refreshToken the one modified path
SaveRefreshToken(_id, token) == [users EXCEPT ![_id.oid].refreshToken = token]

SessionCookies(accessToken, refreshToken) ==
    [accessToken |-> accessToken, refreshToken |-> refreshToken]

\* part_000 93-107: the query of line 94 is never sent; the document loaded
\* for the password check goes into the payload as it is
LoginResponse_part000(loc) ==
    ApiResponse(200, [user |-> Json(loc.user), accessToken |-> loc.accessToken,
                      refreshToken |-> loc.refreshToken],
                SessionCookies(loc.accessToken, loc.refreshToken))

\* lines 86-87: save() answers and the pair goes back to the caller; the
\* login of part_000 then answers at once, the login of user.controller.js
\* sends its findById, and refreshAccessToken, which did not wait, has gone
generateAccessAndRefreshTokens_save(i) ==
    /\ reqs[i].op \in TokenCallers /\ reqs[i].pc = "saveTokens"
    /\ LET loc == reqs[i].loc
       IN  /\ users' = SaveRefreshToken(loc.userId, loc.refreshToken)
           /\ saved' = Append(saved, loc.refreshToken)
           /\ CASE reqs[i].op = "loginUser" ->
                     Continue(i, [reqs[i] EXCEPT !.pc = "findById"])
                [] reqs[i].op = "loginUser_part000" ->
                     Finish(i, [reqs[i] EXCEPT
                                  !.log.storedAtResp = users'[loc.userId.oid].refreshToken,
                                  !.log.savedAtResp = LastSaved(saved', loc.userId)],
                            LoginResponse_part000(loc))
                [] reqs[i].op = "refreshAccessToken" -> Drop(i)
           /\ delivered' = IF reqs[i].op = "loginUser_part000"
                           THEN delivered \cup {LoginResponse_part000(loc).data.refreshToken}
                           ELSE delivered
    /\ UNCHANGED <<started, issued, consumed, cpStarted, lastChange, subscriptions>>

---------------------------------------------------------------------------
(* loginUser (user.controller.js 151-176, part_000 79-108)                 *)

LoginEmails == {Undefined, Str(<<"X">>)} \cup {Registered(id).email : id \in 1..MaxUsers}

LoginOps == {"loginUser", "loginUser_part000"}

\* log: the password change last answered for the account of this email
ChangeSeen(email) ==
    LET doc == findOne(ByEmail(email))
    IN  IF doc = Undefined THEN Undefined ELSE lastChange[doc._id.oid]

\* lines 153-157
LoginReceived(i, op) ==
    /\ Receive(i, MaxOps)
    /\ \E email \in LoginEmails, password \in Passwords :
          LET r == [op |-> op, pc |-> "findOne",
                    body |-> [email |-> email, password |-> password],
                    loc |-> Undefined,
                    log |-> [after |-> ChangeSeen(email), found |-> FALSE,
                             hash |-> Undefined, storedAtResp |-> Undefined,
                             savedAtResp |-> Undefined]]
          IN  IF Falsy(email) \/ Falsy(password)
              THEN Finish(i, r, ApiError(400))
              ELSE Continue(i, r)
    /\ UNCHANGED <<users, issued, saved, consumed, cpStarted, lastChange, delivered, subscriptions>>

loginUser(i) == LoginReceived(i, "loginUser")

loginUser_part000(i) == LoginReceived(i, "loginUser_part000")

\* lines 157-161: User.findOne({ email })
loginUser_findOne(i) ==
    /\ reqs[i].op \in LoginOps /\ reqs[i].pc = "findOne"
    /\ LET user == findOne(ByEmail(reqs[i].body.email))
       IN  IF user = Undefined
           THEN Finish(i, reqs[i], ApiError(404))
           ELSE Continue(i, [reqs[i] EXCEPT !.pc = "isPasswordCorrect",
                               !.loc = [user |-> user],
                               !.log.found = TRUE, !.log.hash = user.password])
    /\ UNCHANGED <<users, started, issued, saved, consumed, cpStarted, lastChange, delivered, subscriptions>>

\* lines 161-165: the hash compared is the one of the document loaded above
loginUser_isPasswordCorrect(i) ==
    /\ reqs[i].op \in LoginOps /\ reqs[i].pc = "isPasswordCorrect"
    /\ LET user == reqs[i].loc.user
       IN  IF ~isPasswordCorrect(user, reqs[i].body.password)
           THEN Finish(i, reqs[i], ApiError(401))
           ELSE Continue(i, [reqs[i] EXCEPT !.pc = "generateTokens",
                               !.loc = [userId |-> user._id, user |-> user]])
    /\ UNCHANGED <<users, started, issued, saved, consumed, cpStarted, lastChange, delivered, subscriptions>>

\* mutant: the token pair is used without awaiting its promise
LoginResponse_Unawaited(loggedInUser, loc) ==
    ApiResponse(200, [user |-> Json(loggedInUser), accessToken |-> Undefined,
                      refreshToken |-> Undefined],
                SessionCookies(Undefined, Undefined))

\* lines 166-175
LoginResponse(loggedInUser, loc) ==
    ApiResponse(200, [user |-> Json(loggedInUser), accessToken |-> loc.accessToken,
                      refreshToken |-> loc.refreshToken],
                SessionCookies(loc.accessToken, loc.refreshToken))

loginUser_findById(i) ==
    /\ Running(i, "loginUser", "findById")
    /\ LET loc == reqs[i].loc
           loggedInUser == Select(findById(loc.userId))
       IN  /\ Finish(i, [reqs[i] EXCEPT
                        !.log.storedAtResp = findById(loc.userId).refreshToken,
                        !.log.savedAtResp = LastSaved(saved, loc.userId)],
                  LoginResponse(loggedInUser, loc))
           /\ delivered' = delivered \cup {LoginResponse(loggedInUser, loc).data.refreshToken}
    /\ UNCHANGED <<users, started, issued, saved, consumed, cpStarted, lastChange, subscriptions>>

---------------------------------------------------------------------------
(* refreshAccessToken (user.controller.js 197-225)                         *)

\* what a caller can present: nothing, a forgery, a token of a vanished
\* account, or any refresh token a response has delivered
PresentedTokens == {Undefined, ForgedToken, OrphanToken} \cup delivered

\* log: the exchange completed last is the logout of the user the presented
\* token was issued to
AfterLogout(token) ==
    /\ last.op = "logoutUser"
    /\ token # Undefined
    /\ token.sub = last.body.user

\* lines 198-205.  Whatever is thrown inside the try block is caught at line
\* 222, where an ApiError is built and dropped: the handler returns without
\* answering.
refreshAccessToken(i) ==
    /\ Receive(i, MaxOps)
    /\ \E incomingRefreshToken \in PresentedTokens, expired \in BOOLEAN :
          LET r == [op |-> "refreshAccessToken", pc |-> "findById",
                    body |-> [refreshToken |-> incomingRefreshToken, expired |-> expired],
                    loc |-> [decodedToken |-> incomingRefreshToken],
                    log |-> [replay |-> incomingRefreshToken \in consumed,
                             verified |-> FALSE, found |-> FALSE, stored |-> Undefined,
                             afterLogout |-> AfterLogout(incomingRefreshToken)]]
          IN  /\ incomingRefreshToken = Undefined => ~expired
              /\ IF incomingRefreshToken = Undefined
                 THEN Finish(i, r, ApiError(401))
                 ELSE IF ~jwtVerify(incomingRefreshToken, expired)
                 THEN Finish(i, r, NoResp)
                 ELSE Continue(i, [r EXCEPT !.log.verified = TRUE])
    /\ UNCHANGED <<users, issued, saved, consumed, cpStarted, lastChange, delivered, subscriptions>>

\* line 211: generateAccessAndRefreshTokens(user._id) without await is a
\* pending promise; destructuring it gives undefined twice
PendingPair == [accessToken |-> Undefined, refreshToken |-> Undefined]

\* lines 205-220
refreshAccessToken_findById(i) ==
    /\ Running(i, "refreshAccessToken", "findById")
    /\ LET incomingRefreshToken == reqs[i].body.refreshToken
           user == findById(reqs[i].loc.decodedToken.sub)
           seen == [reqs[i] EXCEPT !.log.found = TRUE, !.log.stored = user.refreshToken]
       IN  IF user = Undefined
           THEN Finish(i, reqs[i], NoResp) /\ UNCHANGED consumed
           ELSE IF incomingRefreshToken # user.refreshToken
           THEN Finish(i, seen, NoResp) /\ UNCHANGED consumed
           ELSE /\ Respond(i, [seen EXCEPT !.pc = "generateTokens",
                                 !.loc = [userId |-> user._id, user |-> Undefined]],
                           ApiResponse(200, PendingPair,
                                       SessionCookies(PendingPair.accessToken,
                                                      PendingPair.refreshToken)))
                /\ consumed' = consumed \cup {incomingRefreshToken}
    /\ UNCHANGED <<users, started, issued, saved, cpStarted, lastChange, delivered, subscriptions>>

---------------------------------------------------------------------------
(* changePassword (user.controller.js 227-247)                             *)

\* req.body.newPassword: missing, or a password
ChangedPasswords == {Undefined, Str(<<"q">>)}

\* lines 229-233
changePassword(i) ==
    /\ Receive(i, MaxOps)
    /\ \E caller \in Callers, oldPassword \in Passwords, newPassword \in ChangedPasswords :
          LET r == [op |-> "changePassword", pc |-> "findById",
                    body |-> [user |-> caller, oldPassword |-> oldPassword,
                              newPassword |-> newPassword],
                    loc |-> Undefined, log |-> Undefined]
          IN  /\ IF Falsy(oldPassword) \/ Falsy(newPassword)
                 THEN Finish(i, r, ApiError(400))
                 ELSE Continue(i, r)
              /\ cpStarted' = [cpStarted EXCEPT ![caller.oid] = @ + 1]
    /\ UNCHANGED <<users, issued, saved, consumed, lastChange, delivered, subscriptions>>

\* lines 233-237
changePassword_findById(i) ==
    /\ Running(i, "changePassword", "findById")
    /\ LET user == findById(reqs[i].body.user)
       IN  IF user = Undefined
           THEN Finish(i, reqs[i], ApiError(404))
           ELSE Continue(i, [reqs[i] EXCEPT !.pc = "isPasswordCorrect",
                               !.loc = [user |-> user]])
    /\ UNCHANGED <<users, started, issued, saved, consumed, cpStarted, lastChange, delivered, subscriptions>>

\* lines 237-246: user.save() is sent and not awaited; the answer goes out
\* while the store has yet to write the new hash
changePassword_isPasswordCorrect(i) ==
    /\ Running(i, "changePassword", "isPasswordCorrect")
    /\ LET body == reqs[i].body
       IN  IF ~isPasswordCorrect(reqs[i].loc.user, body.oldPassword)
           THEN Finish(i, reqs[i], ApiError(401)) /\ UNCHANGED lastChange
           ELSE /\ Respond(i, [reqs[i] EXCEPT !.pc = "save"], ApiResponse(200, <<>>, Undefined))
                /\ lastChange' = [lastChange EXCEPT ![body.user.oid] =
                                    [user |-> body.user, oldPassword |-> body.oldPassword,
                                     newPassword |-> body.newPassword]]
    /\ UNCHANGED <<users, started, issued, saved, consumed, cpStarted, delivered, subscriptions>>

\* the store after user.save() with password the one modified path
SavePassword(_id, password) == [users EXCEPT ![_id.oid].password = Hash(password)]

\* line 242, completing
changePassword_save(i) ==
    /\ Running(i, "changePassword", "save")
    /\ users' = SavePassword(reqs[i].body.user, reqs[i].body.newPassword)
    /\ Drop(i)
    /\ UNCHANGED <<started, issued, saved, consumed, cpStarted, lastChange, delivered, subscriptions>>

---------------------------------------------------------------------------
(* updateUserDetails (user.controller.js 255-268)                          *)

DetailNames == {Undefined, Str(<<"m">>)}
DetailEmails == {Undefined, Str(<<"x">>), Str(<<"X">>), Str(<<"y">>)}

\* the unique index on email, for an update of the document _id
DuplicateEmail(_id, email) ==
    \E id \in 1..Len(users) : ObjectId(id) # _id /\ users[id].email = email

\* mutant: the update is built and never sent
findByIdAndUpdate_NotSent(_id, fields) == users

\* User.findByIdAndUpdate(_id, { $set: fields }, { new: true }): the store
\* after the update
findByIdAndUpdate(_id, fields) ==
    [users EXCEPT ![_id.oid] =
        [f \in DOMAIN @ |-> IF f \in DOMAIN fields THEN fields[f] ELSE @[f]]]

\* lines 256-259: read the body, validate, send the update
updateUserDetails(i) ==
    /\ Receive(i, MaxOps)
    /\ \E caller \in Callers, fullName \in DetailNames, email \in DetailEmails :
          LET r == [op |-> "updateUserDetails", pc |-> "findByIdAndUpdate",
                    body |-> [user |-> caller, fullName |-> fullName, email |-> email],
                    loc |-> Undefined, log |-> Undefined]
          IN  IF Falsy(fullName) \/ Falsy(email)
              THEN Finish(i, r, ApiError(400))
              ELSE Continue(i, r)
    /\ UNCHANGED <<users, issued, saved, consumed, cpStarted, lastChange, delivered, subscriptions>>

\* lines 259-267: the update answers with the new document, sanitised; the
\* store refuses an email another document holds
updateUserDetails_findByIdAndUpdate(i) ==
    /\ Running(i, "updateUserDetails", "findByIdAndUpdate")
    /\ LET body == reqs[i].body
       IN  IF DuplicateEmail(body.user, body.email)
           THEN Finish(i, reqs[i], ServerFault) /\ UNCHANGED users
           ELSE /\ users' = findByIdAndUpdate(body.user,
                                [fullName |-> body.fullName, email |-> body.email])
                /\ Finish(i, reqs[i],
                          ApiResponse(200, Json(Select(users'[body.user.oid])), Undefined))
    /\ UNCHANGED <<started, issued, saved, consumed, cpStarted, lastChange, delivered, subscriptions>>

---------------------------------------------------------------------------
(* updateUserAvatar (270-290) and updateUserCoverImage (292-312): the same *)
(* handler but for the field it sets.                                      *)

FileOps == {"updateUserAvatar", "updateUserCoverImage"}

\* the field each of the two handlers sets
FileField(op) == IF op = "updateUserAvatar" THEN "avatar" ELSE "coverImage"

\* req.file?.path: undefined when the request carries no file
FilePaths == {Undefined, Str(<<"f">>)}

\* uploadAssetsOnCloudinary(localPath) for a replacement: null, or a new URL
NewUploads == {Undefined, [url |-> Str(<<"v">>)], [url |-> Str(<<"w">>)]}

\* lines 271-274 (293-296): read the file path, validate, send the upload
FileReceived(i, op) ==
    /\ Receive(i, MaxOps)
    /\ \E caller \in Callers, path \in FilePaths :
          LET r == [op |-> op, pc |-> "upload", body |-> [user |-> caller, file |-> path],
                    loc |-> Undefined, log |-> [uploaded |-> FALSE, result |-> Undefined]]
          IN  IF Falsy(path)
              THEN Finish(i, r, ApiError(400))
              ELSE Continue(i, r)
    /\ UNCHANGED <<users, issued, saved, consumed, cpStarted, lastChange, delivered, subscriptions>>

\* lines 274-283 (296-305): the upload answers; the update is sent
FileUploaded(i, op) ==
    /\ Running(i, op, "upload")
    /\ \E result \in NewUploads :
          LET r == [reqs[i] EXCEPT !.pc = "findByIdAndUpdate",
                                   !.log = [uploaded |-> TRUE, result |-> result]]
          IN  IF result = Undefined
              THEN Finish(i, r, ApiError(400))
              ELSE Continue(i, r)
    /\ UNCHANGED <<users, started, issued, saved, consumed, cpStarted, lastChange, delivered,
                   subscriptions>>

\* lines 279-289 (301-311): the update answers with the new document, sanitised
FileStored(i, op) ==
    /\ Running(i, op, "findByIdAndUpdate")
    /\ LET _id == reqs[i].body.user
           url == reqs[i].log.result.url
       IN  /\ users' = findByIdAndUpdate(_id, [f \in {FileField(op)} |-> url])
           /\ Finish(i, reqs[i], ApiResponse(200, Json(Select(users'[_id.oid])), Undefined))
    /\ UNCHANGED <<started, issued, saved, consumed, cpStarted, lastChange, delivered, subscriptions>>

updateUserAvatar(i) == FileReceived(i, "updateUserAvatar")
updateUserAvatar_upload(i) == FileUploaded(i, "updateUserAvatar")
updateUserAvatar_findByIdAndUpdate(i) == FileStored(i, "updateUserAvatar")

updateUserCoverImage(i) == FileReceived(i, "updateUserCoverImage")
updateUserCoverImage_upload(i) == FileUploaded(i, "updateUserCoverImage")
updateUserCoverImage_findByIdAndUpdate(i) == FileStored(i, "updateUserCoverImage")

---------------------------------------------------------------------------
(* The Profile Aggregator: getUserChannelProfile (314-384) and             *)
(* getWatchHistory (386-438).  Both read the store through one aggregation *)
(* pipeline; the subscriptions and videos collections are written by other *)
(* controllers and only read here.                                        *)

\* the ids a subscription may refer to: the accounts and one more user
EdgeIds == {ObjectId(id) : id \in 1..(MaxUsers + 1)}

SubscriptionSets ==
    {S \in SUBSET [channel : EdgeIds, subscriber : EdgeIds] : Cardinality(S) <= MaxEdges}

\* req.params.username
ChannelNames == {Str(<<" ">>), Str(<<"a">>), Str(<<"A">>), Str(<<"b">>)}

\* req.user: set by verifyJWT, absent on a route without it
ProfileCallers == Callers \cup {Undefined}

\* { $match: { username: username?.toLowerCase() } }
Match(username) ==
    {id \in 1..Len(users) : Matches(users[id], "username", Str(ToLowerCase(username.str)))}

\* a field of a document as $project and $addFields read it
Field(doc, key) == IF key \in DOMAIN doc THEN doc[key] ELSE Undefined

\* { $lookup: { from: "subscriptions", localField: "_id", foreignField, as } }
Lookup(_id, foreignField) == {e \in subscriptions : e[foreignField] = _id}

\* $addFields and $project (lines 343-372) on one matched document
ChannelProfile(doc, caller) ==
    LET subscribers == Lookup(doc._id, "channel")
        subscribedTo == Lookup(doc._id, "subscriber")
    IN  [_id |-> doc._id, fullName |-> doc.fullName, username |-> Field(doc, "username"),
         subscribersCount |-> Cardinality(subscribers),
         channelsSubscribedToCount |-> Cardinality(subscribedTo),
         isSubscribed |-> caller \in {e.subscriber : e \in subscribers},
         avatar |-> doc.avatar, coverImage |-> doc.coverImage, email |-> doc.email]

\* mutant: the parameter is tested without trimming it
BlankName_Untrimmed(username) == username.str = <<>>

\* !username?.trim()
BlankName(username) == Trim(username.str) = <<>>

\* lines 315-321: read the parameter, validate, send the aggregation
getUserChannelProfile(i) ==
    /\ Receive(i, MaxOps)
    /\ \E username \in ChannelNames, caller \in ProfileCallers :
          LET r == [op |-> "getUserChannelProfile", pc |-> "aggregate",
                    body |-> [username |-> username, user |-> caller],
                    loc |-> Undefined, log |-> Undefined]
          IN  IF BlankName(username)
              THEN Finish(i, r, ApiError(400))
              ELSE Continue(i, r)
    /\ UNCHANGED <<users, issued, saved, consumed, cpStarted, lastChange, delivered, subscriptions>>

\* lines 321-383: the pipeline answers; channel[0] is returned
getUserChannelProfile_aggregate(i) ==
    /\ Running(i, "getUserChannelProfile", "aggregate")
    /\ LET channel == Match(reqs[i].body.username)
       IN  IF channel = {}
           THEN Finish(i, reqs[i], ApiError(404))
           ELSE Finish(i, reqs[i],
                       ApiResponse(200, ChannelProfile(users[Min(channel)], reqs[i].body.user),
                                   Undefined))
    /\ UNCHANGED <<users, started, issued, saved, consumed, cpStarted, lastChange, delivered,
                   subscriptions>>

\* the videos collection: two videos of the first account
VideoId(v) == [vid |-> v]
Videos == {[_id |-> VideoId(v), owner |-> ObjectId(1)] : v \in 1..2}

\* the watchHistory of an account: references to videos, the last one watched first
Histories == {<<>>, <<VideoId(2), VideoId(1)>>}

\* lines 387-424: building the pipeline evaluates mongoose.Types.ObjectId,
\* and the module does not import mongoose (lines 67-72): a ReferenceError
\* is thrown before anything is sent to the store
getWatchHistory(i) ==
    /\ Receive(i, MaxOps)
    /\ \E caller \in Callers :
          Finish(i, [op |-> "getWatchHistory", pc |-> "done", body |-> [user |-> caller],
                     loc |-> Undefined, log |-> Undefined],
                 ServerFault)
    /\ UNCHANGED <<users, issued, saved, consumed, cpStarted, lastChange, delivered, subscriptions>>

\* the store with any subscriptions in it, the accounts with a watch history
InitProfile ==
    /\ \E k \in 0..MaxUsers, history \in Histories :
          LET j == Min({k, 1})
          IN  /\ users = [id \in 1..k |-> [Accounts(k, j)[id] EXCEPT !.watchHistory = history]]
              /\ Quiet(j)
    /\ subscriptions \in SubscriptionSets

---------------------------------------------------------------------------
(* Specifications *)

\* registrations, one at a time
NextRegister ==
    \/ registerUser(1)
    \/ registerUser_findOne(1)
    \/ registerUser_uploadAvatar(1)
    \/ registerUser_uploadCover(1)
    \/ registerUser_create(1)
    \/ registerUser_findById(1)

SpecRegister == Init /\ [][NextRegister]_vars

\* the session requests, interleaved
Next ==
    \E i \in Slots :
       \/ loginUser(i)
       \/ loginUser_part000(i)
       \/ loginUser_findOne(i)
       \/ loginUser_isPasswordCorrect(i)
       \/ generateAccessAndRefreshTokens(i)
       \/ generateAccessAndRefreshTokens_save(i)
       \/ loginUser_findById(i)
       \/ logoutUser(i)
       \/ refreshAccessToken(i)
       \/ refreshAccessToken_findById(i)
       \/ changePassword(i)
       \/ changePassword_findById(i)
       \/ changePassword_isPasswordCorrect(i)
       \/ changePassword_save(i)

Spec == Init /\ [][Next]_vars

\* the read-only queries, interleaved
NextProfile ==
    \E i \in Slots :
       \/ getUserChannelProfile(i)
       \/ getUserChannelProfile_aggregate(i)
       \/ getWatchHistory(i)

SpecProfile == InitProfile /\ [][NextProfile]_vars

\* registrations and profile updates, interleaved
NextAccounts ==
    \E i \in Slots :
       \/ registerUser_complete(i)
       \/ registerUser_findOne(i)
       \/ registerUser_uploadAvatar(i)
       \/ registerUser_uploadCover(i)
       \/ registerUser_create(i)
       \/ registerUser_findById(i)
       \/ updateUserDetails(i)
       \/ updateUserDetails_findByIdAndUpdate(i)

SpecAccounts == Init /\ [][NextAccounts]_vars

\* replacements of the avatar and of the cover image, interleaved
NextFiles ==
    \E i \in Slots :
       \/ updateUserAvatar(i)
       \/ updateUserAvatar_upload(i)
       \/ updateUserAvatar_findByIdAndUpdate(i)
       \/ updateUserCoverImage(i)
       \/ updateUserCoverImage_upload(i)
       \/ updateUserCoverImage_findByIdAndUpdate(i)

SpecFiles == Init /\ [][NextFiles]_vars

\* a registration, then logins, one request at a time
NextSignup ==
    \/ registerUser(1)
    \/ registerUser_findOne(1)
    \/ registerUser_uploadAvatar(1)
    \/ registerUser_uploadCover(1)
    \/ registerUser_create(1)
    \/ registerUser_findById(1)
    \/ loginUser(1)
    \/ loginUser_findOne(1)
    \/ loginUser_isPasswordCorrect(1)
    \/ generateAccessAndRefreshTokens(1)
    \/ generateAccessAndRefreshTokens_save(1)
    \/ loginUser_findById(1)

SpecSignup == Init /\ [][NextSignup]_vars

---------------------------------------------------------------------------
(* Properties.  Each is stated on `last`, the exchange completed last: the *)
(* request as received, the response as sent (NoResp when the handler      *)
(* ended without answering) and what the log recorded on the way.          *)

Status(resp) == IF resp = NoResp THEN 0 ELSE resp.status

Succeeded(op) == last.op = op /\ Status(last.resp) \in {200, 201}

\* C1: once a refresh presenting token T1 has answered with success, no
\* refresh received later that presents T1 answers with success.
C1_ReplayRejected ==
    (last.op = "refreshAccessToken" /\ last.log.replay) => Status(last.resp) # 200

\* C2: a refresh presenting the user's currently stored, validly signed
\* refresh token answers 200 with a non-empty access token and a non-empty
\* refresh token, the pair just issued, the refresh token being the one
\* stored for the user afterwards.
PresentedCurrent ==
    /\ last.op = "refreshAccessToken"
    /\ last.log.verified /\ last.log.found
    /\ last.body.refreshToken = last.log.stored

C2_RefreshReturnsNewPair ==
    PresentedCurrent =>
        /\ Status(last.resp) = 200
        /\ last.resp.data.accessToken # Undefined
        /\ last.resp.data.refreshToken # Undefined
        /\ last.resp.data.refreshToken \in {issued[k] : k \in 1..Len(issued)}
        /\ last.resp.data.refreshToken # last.body.refreshToken

\* C3: a refresh whose token fails verification, or whose subject is no
\* stored user, or whose token is not the one stored for the user, is
\* answered with an authentication error (401).
RefreshRefused ==
    /\ last.op = "refreshAccessToken"
    /\ last.body.refreshToken # Undefined
    /\ \/ ~last.log.verified
       \/ ~last.log.found
       \/ last.body.refreshToken # last.log.stored

C3_RefreshFailureAnswered == RefreshRefused => Status(last.resp) = 401

\* C4: when logout has answered for a user, it has answered 200 and the
\* user's stored refresh token is absent, whatever the state before (also
\* after an earlier logout).
C4_LogoutClearsToken ==
    last.op = "logoutUser" =>
        Status(last.resp) = 200 /\ last.log.storedAtResp = Undefined

\* a login that found its email and whose password is, or is not, the one
\* whose hash the found document held
LoginChecked == last.op \in LoginOps /\ last.log.found
RightPassword == IsStr(last.body.password) /\ last.log.hash = Hash(last.body.password)

LoginDelivers ==
    /\ Status(last.resp) = 200
    /\ last.resp.data.accessToken # Undefined
    /\ last.resp.data.refreshToken # Undefined
    /\ last.resp.cookies.accessToken = last.resp.data.accessToken
    /\ last.resp.cookies.refreshToken = last.resp.data.refreshToken

\* C5 as stated: a login with an existing email and a wrong password is
\* answered 401; with the right password it is answered 200 with a non-empty
\* access and refresh token, both cookies set to them, and the refresh token
\* returned is the one stored for the user when the answer goes out.
C5_LoginAsStated ==
    LoginChecked =>
        IF RightPassword
        THEN LoginDelivers /\ last.resp.data.refreshToken = last.log.storedAtResp
        ELSE Status(last.resp) = 401

\* C5, amended: ... and the refresh token returned is one this login saved
\* in the user's record; it is the stored one when the answer goes out unless
\* a later save of another login or refresh for the same user came between.
C5_LoginDelivers ==
    LoginChecked =>
        IF RightPassword
        THEN /\ LoginDelivers
             /\ \E k \in 1..Len(saved) : saved[k] = last.resp.data.refreshToken
             /\ last.resp.data.refreshToken.typ = "refresh"
             /\ last.log.savedAtResp = last.resp.data.refreshToken
                    => last.log.storedAtResp = last.resp.data.refreshToken
        ELSE Status(last.resp) = 401

C5_Witness ==
    /\ LoginChecked /\ RightPassword /\ last.op = "loginUser"
    /\ Status(last.resp) = 200
    /\ last.resp.data.refreshToken # last.log.storedAtResp

\* C6: once the one changePassword of a user (old password right, new one
\* different) has answered with success, every login received afterwards
\* succeeds with the new password and is answered 401 with the old one.
AfterOnlyChange ==
    /\ last.op \in LoginOps
    /\ last.log.after # Undefined
    /\ cpStarted[last.log.after.user.oid] = 1
    /\ last.log.after.oldPassword # last.log.after.newPassword

C6_PasswordChangeTakesEffect ==
    AfterOnlyChange =>
        /\ last.body.password = last.log.after.newPassword => Status(last.resp) = 200
        /\ last.body.password = last.log.after.oldPassword => Status(last.resp) = 401

\* C7: a registration with one of fullname, username, email, password
\* missing or blank after trimming is answered 400 and writes no user
\* (stated for a registration whose username and email are not stored yet,
\* so that no conflict stands in the way).
C7_MissingFieldRejected ==
    (/\ last.op = "registerUser"
     /\ ~last.log.present
     /\ \E f \in {"fullname", "username", "email", "password"} : Missing(last.body[f]))
        => Status(last.resp) = 400 /\ ~last.log.created

\* C8 as stated: a registration whose username or email is already stored is
\* answered 409 and has made no upload.
C8_ConflictAsStated ==
    (last.op = "registerUser" /\ last.log.present)
        => Status(last.resp) = 409 /\ last.log.uploads = 0

\* C8, for a complete request (no blank field, both files sent): a
\* registration whose username or email, as sent, is the username or email
\* of a stored user is answered 409 and has made no upload.
C8_ConflictBeforeUpload ==
    (last.op = "registerUser" /\ last.log.present /\ ~SomeFieldBlank(last.body)
     /\ last.body.files = AllFiles)
        => Status(last.resp) = 409 /\ last.log.uploads = 0

\* C9: the user record in the payload of a successful register or login has
\* neither a password field nor a refreshToken field.
PayloadUser ==
    IF last.op = "registerUser" THEN last.resp.data ELSE last.resp.data.user

C9_PayloadSanitized ==
    (Succeeded("registerUser") \/ Succeeded("loginUser") \/ Succeeded("loginUser_part000"))
        => DOMAIN PayloadUser \cap {"password", "refreshToken"} = {}

\* the refresh tokens issued to a user, the newest of them, and whether a
\* token just issued is still on its way to the store
IssuedTo(_id) == {k \in 1..Len(issued) : issued[k].sub = _id}
NewestIssued(_id) == issued[CHOOSE k \in IssuedTo(_id) : \A j \in IssuedTo(_id) : j <= k]
SaveInFlight == \E i \in Slots : reqs[i].pc = "saveTokens"
Stored(id) == users[id].refreshToken

\* a refresh presenting the token would pass lines 203-209
Accepted(token) ==
    /\ jwtVerify(token, FALSE)
    /\ findById(token.sub) # Undefined
    /\ token = findById(token.sub).refreshToken

\* C10 as stated: whenever no issued token is on its way to the store, the
\* stored refresh token of a user, when present, is the one issued to that
\* user most recently.
C10_StoredIsNewestIssued ==
    ~SaveInFlight =>
        \A id \in 1..Len(users) :
            Stored(id) # Undefined => Stored(id) = NewestIssued(ObjectId(id))

\* the saves for a user came in the order the tokens were issued
SavedInIssueOrder(_id) ==
    \A j, k \in SavedFor(saved, _id) : j < k => saved[j].n < saved[k].n

\* C10, amended: the stored refresh token of a user, when present, is a
\* refresh token issued to that user, the one saved last for that user; it is
\* the one issued most recently when every issued token has been saved and
\* the saves came in issue order; and at most one issued refresh token of a
\* user is accepted at any time.
C10_StoredIsLastSaved ==
    \A id \in 1..Len(users) :
        /\ Stored(id) # Undefined =>
              /\ Stored(id) \in {issued[k] : k \in IssuedTo(ObjectId(id))}
              /\ Stored(id) = LastSaved(saved, ObjectId(id))
              /\ (~SaveInFlight /\ SavedInIssueOrder(ObjectId(id)))
                    => Stored(id) = NewestIssued(ObjectId(id))
        /\ Cardinality({k \in IssuedTo(ObjectId(id)) : Accepted(issued[k])}) <= 1

C10_Witness ==
    /\ ~SaveInFlight
    /\ \E id \in 1..Len(users) :
          /\ Stored(id) # Undefined
          /\ Stored(id) # NewestIssued(ObjectId(id))
          /\ ~SavedInIssueOrder(ObjectId(id))

---------------------------------------------------------------------------
(* Properties of the Profile Aggregator *)

ProfileAnswered == last.op = "getUserChannelProfile"

\* the accounts whose stored username is the requested one in lowercase
Named(username) ==
    {id \in 1..Len(users) : users[id].userName.str = ToLowerCase(username.str)}

EdgesOf(field, _id) == {e \in subscriptions : e[field] = _id}

\* the answer describes the account id as seen by the caller
Describes(data, id, caller) ==
    /\ data.username = users[id].userName
    /\ data.subscribersCount = Cardinality(EdgesOf("channel", ObjectId(id)))
    /\ data.channelsSubscribedToCount = Cardinality(EdgesOf("subscriber", ObjectId(id)))
    /\ data.isSubscribed =
          (caller # Undefined /\ [channel |-> ObjectId(id), subscriber |-> caller] \in subscriptions)
    /\ (EdgesOf("channel", ObjectId(id)) = {} /\ EdgesOf("subscriber", ObjectId(id)) = {}
        /\ caller = Undefined)
       => (data.subscribersCount = 0 /\ data.channelsSubscribedToCount = 0
           /\ data.isSubscribed = FALSE)

\* C11: channelProfile for an existing username answers with the number of
\* subscription edges whose channel is that user, the number whose subscriber
\* is that user, and isSubscribed true exactly when the caller is among the
\* channel's subscribers; with no edge and no caller: 0, 0 and false.
C11_ChannelCounts ==
    (ProfileAnswered /\ Named(last.body.username) # {})
    => /\ Status(last.resp) = 200
       /\ \E id \in Named(last.body.username) :
             Describes(last.resp.data, id, last.body.user)

\* an account with two subscribers, the caller among them, and one subscription
C11_Witness ==
    /\ ProfileAnswered /\ Status(last.resp) = 200
    /\ last.resp.data.subscribersCount = 2
    /\ last.resp.data.channelsSubscribedToCount = 1
    /\ last.resp.data.isSubscribed

\* C12: channelProfile for a username that matches no stored user fails with
\* 404, for a blank username with 400, and neither answer carries a profile.
C12_NoProfile ==
    (ProfileAnswered /\ Named(last.body.username) = {})
    => /\ "error" \in DOMAIN last.resp
       /\ "data" \notin DOMAIN last.resp
       /\ Status(last.resp) = (IF Trim(last.body.username.str) = <<>> THEN 400 ELSE 404)

\* an unknown username asked of a store that holds accounts and subscriptions
C12_Witness ==
    /\ ProfileAnswered /\ Status(last.resp) = 404
    /\ users # <<>> /\ subscriptions # {}

---------------------------------------------------------------------------
(* Properties of registerUser: the two files *)

RegisterAnswered == last.op = "registerUser"

FourFields == {"fullname", "username", "email", "password"}

\* the four fields are there and none is blank
ValidFields(body) == \A f \in FourFields : ~Missing(body[f])

\* a stored user has the username or the email the request would be stored with
Taken(body) ==
    \E id \in 1..Len(users) :
       \/ users[id].userName.str = ToLowerCase(body.username.str)
       \/ users[id].email.str = ToLowerCase(body.email.str)

\* the request carries a file in this field
Sent(body, field) == body.files.present /\ field \in body.files.fields

\* valid fields, a username and an email nobody has, an avatar that is sent
\* and whose upload does not fail
GoodButForCover ==
    /\ RegisterAnswered /\ ValidFields(last.body)
    /\ (last.log.created \/ ~Taken(last.body))
    /\ Sent(last.body, "avatar") /\ ~last.log.avatarFailed

\* C13: a registration with four valid fields, a unique username and email
\* and an avatar that uploads succeeds whether the cover image is absent,
\* fails to upload or uploads; absent or failed, the record is created with
\* an empty cover-image URL.
C13_CoverOptional ==
    GoodButForCover
    => /\ Status(last.resp) = 201
       /\ (~Sent(last.body, "coverImage") \/ last.log.coverFailed)
          => last.resp.data.coverImage = Str(<<>>)

\* C14: when the avatar file is absent or its upload fails, register fails
\* with a client error and creates no record; every stored user has a
\* non-empty avatar URL.
C14_AvatarRequired ==
    /\ (RegisterAnswered /\ (~Sent(last.body, "avatar") \/ last.log.avatarFailed))
       => (Status(last.resp) \in {400, 409} /\ ~last.log.created)
    /\ \A id \in 1..Len(users) : IsStr(users[id].avatar) /\ users[id].avatar.str # <<>>

---------------------------------------------------------------------------
(* Properties of the stored usernames and emails *)

C16_StoredLowercase ==
    \A id \in 1..Len(users) :
       /\ users[id].userName.str = ToLowerCase(users[id].userName.str)
       /\ users[id].email.str = ToLowerCase(users[id].email.str)

---------------------------------------------------------------------------
(* Properties of updateUserAvatar and updateUserCoverImage *)

\* this step ends a file replacement: last' is its exchange
FileAnswered ==
    /\ last'.op \in FileOps
    /\ \/ started' # started /\ reqs' = reqs
       \/ \E i \in Slots : reqs[i].op \in FileOps /\ reqs'[i].op = "idle"

\* the file was absent, or its upload failed
NoUrl(x) == x.body.file = Undefined \/ (x.log.uploaded /\ x.log.result = Undefined)

FileOutcome ==
    FileAnswered
    => IF NoUrl(last')
       THEN Status(last'.resp) = 400 /\ users' = users
       ELSE /\ Status(last'.resp) = 200
            /\ users'[last'.body.user.oid][FileField(last'.op)] = last'.log.result.url
            /\ last'.resp.data[FileField(last'.op)] = last'.log.result.url
            /\ "password" \notin DOMAIN last'.resp.data
            /\ "refreshToken" \notin DOMAIN last'.resp.data

\* C17: updateUserAvatar and updateUserCoverImage fail with a client error
\* and leave the stored URL as it was when the file is absent or the upload
\* fails; when the upload succeeds the stored URL is the one the uploader
\* returned and the returned record has neither password nor refresh token.
C17_FileReplaced == [][FileOutcome]_vars

\* a cover image replaced by an uploaded one, after the avatar was
C17_Witness ==
    /\ last.op = "updateUserCoverImage" /\ Status(last.resp) = 200
    /\ users[1].coverImage = Str(<<"w">>) /\ users[1].avatar = Str(<<"v">>)

---------------------------------------------------------------------------
(* Properties of getWatchHistory *)

\* the videos a document's watch history refers to
Watched(doc) == {v \in Videos : \E k \in 1..Len(doc.watchHistory) : doc.watchHistory[k] = v._id}

\* a video with its owner embedded: the owner's name, username and avatar
Embedded(entry, v) ==
    /\ entry._id = v._id
    /\ \E id \in 1..Len(users) :
          /\ users[id]._id = v.owner
          /\ entry.owner = [_id |-> users[id]._id, fullName |-> users[id].fullName,
                            username |-> users[id].userName, avatar |-> users[id].avatar]

\* C18: watchHistory for an authenticated caller whose record exists returns
\* exactly the videos of the caller's stored watch-history list, each with one
\* embedded owner: the owner's name, username and avatar.
C18_HistoryReturned ==
    (last.op = "getWatchHistory" /\ findById(last.body.user) # Undefined)
    => /\ Status(last.resp) = 200
       /\ \A v \in Watched(findById(last.body.user)) :
             \E k \in 1..Len(last.resp.data) : Embedded(last.resp.data[k], v)
       /\ \A k \in 1..Len(last.resp.data) :
             \E v \in Watched(findById(last.body.user)) : Embedded(last.resp.data[k], v)

---------------------------------------------------------------------------
(* Properties across handlers *)

\* C19: a refresh token issued to a user before that user's logout is
\* rejected by every refresh request made after the logout response, until
\* the user logs in again.  Every token a caller can present here was
\* delivered, hence issued, before the logout that was answered last.
C19_RefusedAfterLogout ==
    (last.op = "refreshAccessToken" /\ last.log.afterLogout)
    => Status(last.resp) # 200

\* the accounts registered with this email (in whatever case) and this
\* password in the course of the behaviour: the earlier accounts are not
\* named b
RegisteredWith(email, password) ==
    {id \in 1..Len(users) : /\ users[id].userName = Str(<<"b">>)
                            /\ users[id].email.str = ToLowerCase(email.str)
                            /\ users[id].password = Hash(password)}

\* C20: for every account created by a successful register with email e and
\* password p, e in any letter case, a later login with the same e and p
\* succeeds.
C20_LoginAfterRegister ==
    (/\ last.op = "loginUser"
     /\ IsStr(last.body.email) /\ IsStr(last.body.password)
     /\ RegisteredWith(last.body.email, last.body.password) # {})
    => Status(last.resp) = 200

---------------------------------------------------------------------------
(* Frame of the rejected session operations *)

RejectableOps == {"loginUser", "loginUser_part000", "refreshAccessToken", "changePassword"}

\* what the claim is about: the refresh token and the password of every user
Credentials(store) ==
    [id \in 1..Len(store) |->
        [refreshToken |-> store[id].refreshToken, password |-> store[id].password]]

\* the work a handler left behind after answering 200
Background(r) ==
    \/ r.op = "refreshAccessToken" /\ r.pc \in {"generateTokens", "saveTokens"}
    \/ r.op = "changePassword" /\ r.pc = "save"

\* this step ends a login, a refresh or a password change with a refusal
\* (an error answer, or no answer at all): last' is its exchange
RejectedNow ==
    /\ last'.op \in RejectableOps
    /\ Status(last'.resp) # 200
    /\ \/ started' # started /\ reqs' = reqs
       \/ \E i \in Slots : /\ reqs[i].op = last'.op /\ reqs[i].body = last'.body
                           /\ ~Background(reqs[i])
                           /\ reqs'[i].op = "idle"

\* the request r has passed every check of its handler
Passed(r) ==
    CASE r.op \in LoginOps ->
            /\ ~Falsy(r.body.email) /\ ~Falsy(r.body.password)
            /\ r.loc.user.email = r.body.email
            /\ r.loc.user.password = Hash(r.body.password)
      [] r.op = "refreshAccessToken" ->
            /\ r.body.refreshToken # Undefined
            /\ r.body.refreshToken.typ = "refresh" /\ ~r.body.expired
            /\ r.log.found /\ r.log.stored = r.body.refreshToken
      [] r.op = "changePassword" ->
            /\ ~Falsy(r.body.oldPassword) /\ ~Falsy(r.body.newPassword)
            /\ r.loc.user.password = Hash(r.body.oldPassword)
      [] OTHER -> FALSE

\* a step that ends a rejected operation writes no credential, and whatever
\* step writes one is the save of a request that passed every check: no step
\* of an operation that ends rejected writes one
RejectionFrame ==
    /\ RejectedNow => Credentials(users') = Credentials(users)
    /\ Credentials(users') # Credentials(users)
       => \E i \in Slots : /\ reqs[i].pc \in {"saveTokens", "save"}
                           /\ Passed(reqs[i])
                           /\ reqs'[i] # reqs[i]

\* C21: every rejected operation leaves the Credential Store unchanged: a
\* login that fails (missing field, unknown email, wrong password), a refresh
\* that fails (missing, invalid, unknown-subject or mismatched token) and a
\* changePassword that fails (missing field, wrong old password) modify
\* neither the stored refresh token nor the stored password of any user.
C21_RejectedLeavesStore == [][RejectionFrame]_vars

\* a password change refused for a wrong old password, after a login of the
\* same behaviour has saved a new refresh token
C21_Witness ==
    /\ last.op = "changePassword" /\ Status(last.resp) = 401
    /\ \E id \in 1..Len(users) : users[id].refreshToken = saved[Len(saved)]
    /\ Len(saved) >= 2

====
